---- MODULE Spec2Model ----
(***************************************************************************)
(* Model of the probabilistic scene inference engine                       *)
(* (ProbabilisticSceneRecognition::SceneInferenceEngine): its constructor, *)
(* the two subscriber callbacks, update() and executeInStackMode().        *)
(*                                                                         *)
(* The engine's collaborators that are not part of the engine's source    *)
(* (SceneModelDescription, ObjectTransformation, the node's main loop)     *)
(* are modelled at their interface: the model records what was handed to   *)
(* it, the transformation succeeds or throws, main constructs the engine   *)
(* and then either ticks update() for ever or runs executeInStackMode()    *)
(* once.                                                                   *)
(***************************************************************************)
EXTENDS Naturals, Sequences, FiniteSets, TLC

\* ------------------------------------------------------------------ bounds

\* Number of messages the two subscribers deliver during a run.
MaxArrivals == 2

\* Longest array given as bag_filenames_list.
MaxBagList == 2

\* Largest number of required options left unset in one configuration.
MaxMissing == 1

\* Largest number of operations that change the table under test.
MaxTableOps == 4

\* Largest count given to setDefaultClassCounter, and largest count of a
\* cell of the background table the inference is run on.
MaxCount == 2

\* Longest pEvidenceList given to doInference.
MaxEvidence == 3

\* ------------------------------------------------------------ input values

\* PbdObject messages (evidence) the object topic can deliver.
Evidence == {"e1", "e2"}

\* Scene identifiers of the scenes in the loaded scene model.
Scenes == {"s1", "s2"}

\* Identifiers carried by PbdSceneGraph messages; "sX" names no scene.
SceneGraphs == {"s1", "sX"}

\* The options the constructor reads, in the order it reads them
\* (bag_filenames_list is optional and is validated in its place).
ParamOrder ==
  << "plot", "object_topic", "scene_graph_topic", "scene_model_filename",
     "bag_filenames_list", "base_frame_id", "scale_factor",
     "sigma_multiplicator", "targeting_help", "inference_algorithm" >>

RequiredParams ==
  { ParamOrder[i] : i \in 1..Len(ParamOrder) } \ {"bag_filenames_list"}

\* A message stored in a rosbag file: the topic it was recorded on, its
\* message type and its payload.
Msg(topic, type, val) == [topic |-> topic, type |-> type, val |-> val]

\* The rosbag files of the file system.  "none.bag" cannot be opened.
LearnerBags == {"none.bag", "other.bag", "scene.bag", "unknown.bag"}
StackBags == {"none.bag", "other.bag", "objects.bag"}

CanOpen(path) == path # "none.bag"

BagContent(path) ==
  CASE path = "other.bag" ->
         << Msg("other_topic", "Other", "x") >>
    [] path = "scene.bag" ->
         << Msg("scene_graph_topic", "PbdSceneGraph", "s1"),
            Msg("object_topic", "PbdObject", "e1"),
            Msg("scene_graph_topic", "Other", "x"),
            Msg("scene_graph_topic", "PbdSceneGraph", "s2") >>
    [] path = "unknown.bag" ->
         << Msg("scene_graph_topic", "PbdSceneGraph", "sX") >>
    [] path = "objects.bag" ->
         << Msg("object_topic", "PbdObject", "e1"),
            Msg("object_topic", "Other", "x"),
            Msg("scene_graph_topic", "PbdSceneGraph", "s1"),
            Msg("object_topic", "PbdObject", "e2") >>
    [] OTHER -> << >>

\* XmlRpc values: type is "invalid" (option not set), "string", "array"
\* or "int"; an array holds elements that are strings or ints.
XmlString(s) == [type |-> "string", str |-> s, arr |-> << >>]
XmlArray(a) == [type |-> "array", str |-> "", arr |-> a]
XmlInt == [type |-> "int", str |-> "", arr |-> << >>]
XmlNotSet == [type |-> "invalid", str |-> "", arr |-> << >>]

XmlElements ==
  { [type |-> "string", str |-> p] : p \in LearnerBags }
    \cup { [type |-> "int", str |-> ""] }

SeqsUpTo(S, n) == UNION { [1..k -> S] : k \in 0..n }

BagListValues ==
  {XmlNotSet, XmlInt}
    \cup { XmlString(p) : p \in LearnerBags }
    \cup { XmlArray(a) : a \in SeqsUpTo(XmlElements, MaxBagList) }

\* bag_path is only read in stack mode.
Configs ==
  { c \in [ missing : { m \in SUBSET RequiredParams : Cardinality(m) <= MaxMissing },
            bagList : BagListValues,
            mode    : {"online", "stack"},
            bagPath : {XmlNotSet} \cup { XmlString(p) : p \in StackBags } ] :
      c.mode = "online" => c.bagPath = XmlNotSet }

\* ------------------------------------------------------------------ errors

NoError == [kind |-> "none", what |-> "", in |-> ""]
Err(kind, what, in) == [kind |-> kind, what |-> what, in |-> in]

\* One entry of the log of calls an operation makes.
Call(op, arg, ok) == [op |-> op, arg |-> arg, ok |-> ok]

VARIABLES
  config,               \* the options on the parameter server and the mode
  pc,                   \* where the node is
  error,                \* the exception that ended the node, if any
  mObjectListener,      \* the object subscriber is valid
  mSceneGraphListener,  \* the scene-graph subscriber is valid
  mVisualizer,          \* the visualization chain is initialized
  mEvidenceBuffer,      \* queue of PbdObject
  mSceneGraphBuffer,    \* queue of PbdSceneGraph
  mModel,               \* the scene model
  calls,                \* calls made by the operation running (or last run)
  bagIdx,               \* loop index of readLearnerInputBags (1-based)
  view,                 \* records executeInStackMode has still to visit
  opened,               \* rosbag files opened so far
  warnings,             \* warnings given so far (no message on the topic)
  arrivals,             \* messages delivered so far
  arrivedInOp,          \* a message was delivered while the operation ran
  tick,                 \* "none", "first" or "later": which update() it is
  startEv,              \* evidence buffer when the operation started
  startSg,              \* scene-graph buffer when the operation started
  enqEv,                \* every PbdObject handed to newObservationCallback
  popEv,                \* every PbdObject update() took, and what became of it
  enqSg,                \* every PbdSceneGraph handed to newSceneGraphCallback
  popSg,                \* every PbdSceneGraph update() took, and what became of it
  table,                \* a MappedProbabilityTable being filled and queried
  registered,           \* the object types add() was called with
  steps,                \* operations that changed the table so far
  result,               \* what the last query of the table returned
  evidenceList,         \* pEvidenceList of the background inference
  mProbability          \* PowerSetBackgroundInferenceAlgorithm::mProbability

vars ==
  << config, pc, error, mObjectListener, mSceneGraphListener, mVisualizer,
     mEvidenceBuffer, mSceneGraphBuffer, mModel, calls, bagIdx, view, opened,
     warnings, arrivals, arrivedInOp, tick, startEv, startSg,
     enqEv, popEv, enqSg, popSg,
     table, registered, steps, result, evidenceList, mProbability >>

\* The variables of the node, which the table operations leave alone.
engineVars ==
  << config, pc, error, mObjectListener, mSceneGraphListener, mVisualizer,
     mEvidenceBuffer, mSceneGraphBuffer, mModel, calls, bagIdx, view, opened,
     warnings, arrivals, arrivedInOp, tick, startEv, startSg,
     enqEv, popEv, enqSg, popSg >>

\* The variables of the table and of the background inference, which the
\* node's operations leave alone.
tableVars == << table, registered, steps, result >>

inferenceVars == << evidenceList, mProbability >>

\* The record of what went through the two buffers.
hist == << enqEv, popEv, enqSg, popSg >>

\* An item update() took from a buffer; ok: it was integrated.
Taken(item, ok) == [item |-> item, ok |-> ok]

\* ------------------------------------------------- MappedProbabilityTable

\* Object types: the first two get registered, "fork" never is.
LearnedTypes == {"cup", "plate"}
Types == LearnedTypes \cup {"fork"}

\* The rows of the table under test (pRow is 0-based), and a row beyond them.
Rows == {0, 1}
RowBeyond == Cardinality(Rows)

\* A table value: a fraction.  Counts are fractions over 1; normalize()
\* divides, so its results are kept exact as num/den.
Prob(num, den) == [num |-> num, den |-> den]

ProbEq(a, b) == a.num * b.den = b.num * a.den

RECURSIVE SumSeq(_)
SumSeq(q) == IF q = << >> THEN 0 ELSE Head(q) + SumSeq(Tail(q))

\* A row of the ProbabilityTable: the values of its columns are num[i]/den,
\* column 0 (the default class) first.
NewRow == [num |-> << 0 >>, den |-> 1]

\* MappedProbabilityTable() followed by initializeTable(pRows): no type
\* is mapped, and the table has the column of the default class only.
initializeTable(pRows) ==
  [ mMappingTypeToIndice |-> << >>,
    mTable |-> [ r \in 1..pRows |-> NewRow ] ]

getNumberOfRows(t) == Len(t.mTable)

getNumberOfColumns(t) == 1 + Cardinality(DOMAIN t.mMappingTypeToIndice)

\* Mutant: the index of a type not in the list is that of the last column.
getIndex_Last(t, pType) ==
  IF pType \in DOMAIN t.mMappingTypeToIndice
    THEN t.mMappingTypeToIndice[pType]
    ELSE getNumberOfColumns(t) - 1

\* "Returns the index for the given object type or zero, if not in list."
getIndex(t, pType) ==
  IF pType \in DOMAIN t.mMappingTypeToIndice
    THEN t.mMappingTypeToIndice[pType]
    ELSE 0

\* Mutant: a type is given a new column each time it is added.
add_Again(t, pType) ==
  [ mMappingTypeToIndice |->
      [ n \in DOMAIN t.mMappingTypeToIndice \cup {pType} |->
          IF n = pType THEN Len(t.mTable[1].num)
                       ELSE t.mMappingTypeToIndice[n] ],
    mTable |-> [ r \in DOMAIN t.mTable |->
                   [ t.mTable[r] EXCEPT !.num = Append(@, 0) ] ] ]

\* add(pType): "Adds an entry for the given object type".  A type already
\* mapped keeps its index; a new one gets the next column, which starts at 0
\* in every row.
add(t, pType) ==
  IF pType \in DOMAIN t.mMappingTypeToIndice
    THEN t
    ELSE [ mMappingTypeToIndice |->
             [ n \in DOMAIN t.mMappingTypeToIndice \cup {pType} |->
                 IF n = pType THEN getNumberOfColumns(t)
                              ELSE t.mMappingTypeToIndice[n] ],
           mTable |-> [ r \in DOMAIN t.mTable |->
                          [ t.mTable[r] EXCEPT !.num = Append(@, 0) ] ] ]

\* Mutant: the count is written over the cell, not added to it.
addCount_Set(t, pRow, pType) ==
  LET u == add(t, pType)
      i == getIndex(u, pType)
  IN  [ u EXCEPT !.mTable[pRow + 1].num[i + 1] = u.mTable[pRow + 1].den ]

\* add(pRow, pType): "Adds a count for the object in the given row"; the
\* type is registered first when it is not mapped yet.
addCount(t, pRow, pType) ==
  LET u == add(t, pType)
      i == getIndex(u, pType)
  IN  [ u EXCEPT !.mTable[pRow + 1].num[i + 1] = @ + u.mTable[pRow + 1].den ]

\* setDefaultClassCounter(pRow, pCount): "Sets the counter for the default
\* class".
setDefaultClassCounter(t, pRow, pCount) ==
  [ t EXCEPT !.mTable[pRow + 1].num[1] = pCount * t.mTable[pRow + 1].den ]

RowSum(row) == Prob(SumSeq(row.num), row.den)

\* Mutant: every row is divided by its largest value.
normalize_ByMax(t) ==
  [ t EXCEPT !.mTable =
      [ r \in DOMAIN t.mTable |->
          LET row == t.mTable[r]
              max == CHOOSE m \in { row.num[i] : i \in DOMAIN row.num } :
                       \A i \in DOMAIN row.num : row.num[i] <= m
          IN  IF max = 0 THEN row ELSE [ row EXCEPT !.den = max ] ] ]

\* normalize(): "Normalizes the given probability table so that the values
\* sum up to one": every value is divided by the sum of its row; a row whose
\* sum is 0 is left as it is.
normalize(t) ==
  [ t EXCEPT !.mTable =
      [ r \in DOMAIN t.mTable |->
          LET row == t.mTable[r]
          IN  IF RowSum(row).num = 0
                THEN row
                ELSE [ row EXCEPT !.den = RowSum(row).num ] ] ]

\* getProbability(pRow, pType): the value of the cell of the type's column,
\* 0 for a row the table does not have.
getProbability(t, pRow, pType) ==
  IF pRow >= getNumberOfRows(t)
    THEN Prob(0, 1)
    ELSE Prob(t.mTable[pRow + 1].num[getIndex(t, pType) + 1],
              t.mTable[pRow + 1].den)

\* The value of the default class in row 0.
DefaultValueOf(t) == getProbability(t, 0, "")

\* What a query of the table returned.
NoResult == [op |-> "none", row |-> 0, type |-> "", value |-> Prob(0, 1)]
Result(op, row, type, value) ==
  [op |-> op, row |-> row, type |-> type, value |-> value]

\* ------------------------------------------------- the scene model (mModel)

EmptyModel ==
  [ loaded |-> FALSE, scenes |-> {}, evidence |-> << >>, learned |-> << >>,
    inferredEvidence |-> 0, inferredLearned |-> 0 ]

loadModelFromFile(m) == [m EXCEPT !.loaded = TRUE, !.scenes = Scenes]

\* The row a scene has in the table of counts that learning fills, and the
\* object types of the evidence a scene-graph example contains.
SceneRow(g) == IF g = "s1" THEN 0 ELSE 1

SceneGraphObjects(g) ==
  CASE g = "s1" -> << "cup", "cup", "plate" >>
    [] g = "s2" -> << "plate" >>
    [] OTHER -> << "cup" >>

\* Each evidence item of the example adds a count to the row of the scene.
RECURSIVE updateFromSceneGraph(_, _, _)
updateFromSceneGraph(t, pRow, objects) ==
  IF objects = << >> THEN t
  ELSE updateFromSceneGraph(addCount(t, pRow, Head(objects)), pRow, Tail(objects))

integrateEvidence(m, e) == [m EXCEPT !.evidence = Append(@, e)]

\* Recompute: the result now covers everything integrated so far.
updateModel(m) ==
  [m EXCEPT !.inferredEvidence = Len(m.evidence),
            !.inferredLearned = Len(m.learned)]

\* Fails with a lookup error when no scene has the identifier.
sceneGraphKnown(m, g) == g \in m.scenes

integrateSceneGraph(m, g) == [m EXCEPT !.learned = Append(@, g)]

\* The table of counts of a model: one row per scene, filled by the
\* examples integrated so far, in the order of their integration.
RECURSIVE learnedTable(_, _)
learnedTable(t, examples) ==
  IF examples = << >> THEN t
  ELSE learnedTable(updateFromSceneGraph(t, SceneRow(Head(examples)),
                                         SceneGraphObjects(Head(examples))),
                    Tail(examples))

modelTable(m) == learnedTable(initializeTable(Cardinality(Scenes)), m.learned)

\* The table and the inference before any operation on them.
InitTable ==
  /\ table = initializeTable(Cardinality(Rows))
  /\ registered = {}
  /\ steps = 0
  /\ result = NoResult

NotInferred == Prob(0, 0)

InitInference ==
  /\ evidenceList = << >>
  /\ mProbability = NotInferred

\* The node before its constructor runs.
InitEngine ==
  /\ pc = "constructor"
  /\ error = NoError
  /\ mObjectListener = FALSE
  /\ mSceneGraphListener = FALSE
  /\ mVisualizer = FALSE
  /\ mEvidenceBuffer = << >>
  /\ mSceneGraphBuffer = << >>
  /\ mModel = EmptyModel
  /\ calls = << >>
  /\ bagIdx = 1
  /\ view = << >>
  /\ opened = {}
  /\ warnings = << >>
  /\ arrivals = 0
  /\ arrivedInOp = FALSE
  /\ tick = "none"
  /\ startEv = << >>
  /\ startSg = << >>
  /\ enqEv = << >>
  /\ popEv = << >>
  /\ enqSg = << >>
  /\ popSg = << >>

Init ==
  /\ config \in Configs
  /\ InitEngine
  /\ InitTable
  /\ InitInference

\* ------------------------------------------------------------ constructor

\* Validation of the optional bag_filenames_list: one string, or an array
\* whose elements are all strings.
RECURSIVE firstNonString(_, _)
firstNonString(arr, i) ==
  IF i > Len(arr) THEN 0
  ELSE IF arr[i].type # "string" THEN i
  ELSE firstNonString(arr, i + 1)

\* Mutant: an array is accepted without looking at its elements.
validateBagFilenamesList_AnyArray(v) ==
  IF v.type = "invalid" THEN NoError
  ELSE IF v.type = "string" THEN NoError
  ELSE IF v.type # "array"
    THEN Err("invalid_argument", "bag_filenames_list", "constructor")
  ELSE NoError

validateBagFilenamesList(v) ==
  IF v.type = "invalid" THEN NoError
  ELSE IF v.type = "string" THEN NoError
  ELSE IF v.type # "array"
    THEN Err("invalid_argument", "bag_filenames_list", "constructor")
  ELSE IF firstNonString(v.arr, 1) # 0
    THEN Err("invalid_argument", "bag_filenames_list", "constructor")
  ELSE NoError

\* Mutant: inference_algorithm is read without a check.
checkParam_AlgorithmOptional(cfg, name) ==
  IF name = "bag_filenames_list" THEN validateBagFilenamesList(cfg.bagList)
  ELSE IF name \in cfg.missing \ {"inference_algorithm"}
    THEN Err("runtime_error", name, "constructor")
  ELSE NoError

\* The check the constructor makes for one option.
checkParam(cfg, name) ==
  IF name = "bag_filenames_list" THEN validateBagFilenamesList(cfg.bagList)
  ELSE IF name \in cfg.missing THEN Err("runtime_error", name, "constructor")
  ELSE NoError

\* The first check that throws, going through the options in order.
RECURSIVE getParams(_, _)
getParams(cfg, i) ==
  IF i > Len(ParamOrder) THEN NoError
  ELSE IF checkParam(cfg, ParamOrder[i]) # NoError
    THEN checkParam(cfg, ParamOrder[i])
  ELSE getParams(cfg, i + 1)

ctorGetParams ==
  /\ pc = "constructor"
  /\ error' = getParams(config, 1)
  /\ pc' = IF error' = NoError THEN "load_model" ELSE "aborted"
  /\ UNCHANGED << config, mObjectListener, mSceneGraphListener, mVisualizer,
                  mEvidenceBuffer, mSceneGraphBuffer, mModel, calls, bagIdx,
                  view, opened, warnings, arrivals, arrivedInOp, tick,
                  startEv, startSg >>
  /\ UNCHANGED hist
  /\ UNCHANGED << tableVars, inferenceVars >>

loadSceneModel ==
  /\ pc = "load_model"
  /\ mModel' = loadModelFromFile(mModel)
  /\ calls' = Append(calls, Call("loadModelFromFile", "", TRUE))
  /\ pc' = "init_vis"
  /\ UNCHANGED << config, error, mObjectListener, mSceneGraphListener,
                  mVisualizer, mEvidenceBuffer, mSceneGraphBuffer, bagIdx,
                  view, opened, warnings, arrivals, arrivedInOp, tick,
                  startEv, startSg >>
  /\ UNCHANGED hist
  /\ UNCHANGED << tableVars, inferenceVars >>

initializeVisualizationChain ==
  /\ pc = "init_vis"
  /\ mVisualizer' = TRUE
  /\ calls' = Append(calls, Call("getSceneListWithProbabilities", "", TRUE))
  /\ pc' = "subscribe_objects"
  /\ UNCHANGED << config, error, mObjectListener, mSceneGraphListener,
                  mEvidenceBuffer, mSceneGraphBuffer, mModel, bagIdx, view,
                  opened, warnings, arrivals, arrivedInOp, tick, startEv,
                  startSg >>
  /\ UNCHANGED hist
  /\ UNCHANGED << tableVars, inferenceVars >>

subscribeObjectTopic ==
  /\ pc = "subscribe_objects"
  /\ mObjectListener' = TRUE
  /\ calls' = Append(calls, Call("subscribe", "object_topic", TRUE))
  /\ pc' = "subscribe_graphs"
  /\ UNCHANGED << config, error, mSceneGraphListener, mVisualizer,
                  mEvidenceBuffer, mSceneGraphBuffer, mModel, bagIdx, view,
                  opened, warnings, arrivals, arrivedInOp, tick, startEv,
                  startSg >>
  /\ UNCHANGED hist
  /\ UNCHANGED << tableVars, inferenceVars >>

subscribeSceneGraphTopic ==
  /\ pc = "subscribe_graphs"
  /\ mSceneGraphListener' = TRUE
  /\ calls' = Append(calls, Call("subscribe", "scene_graph_topic", TRUE))
  /\ pc' = "read_bags"
  /\ UNCHANGED << config, error, mObjectListener, mVisualizer,
                  mEvidenceBuffer, mSceneGraphBuffer, mModel, bagIdx, view,
                  opened, warnings, arrivals, arrivedInOp, tick, startEv,
                  startSg >>
  /\ UNCHANGED hist
  /\ UNCHANGED << tableVars, inferenceVars >>

\* ---------------------------------------------------------------- callbacks

\* Mutant: a bounded buffer that rejects a message when it holds one.
newObservationCallback_Bounded(buffer, pObject) ==
  IF Len(buffer) >= 1 THEN buffer ELSE Append(buffer, pObject)

\* Mutant: the evidence is put at the front of the queue.
newObservationCallback_Front(buffer, pObject) == << pObject >> \o buffer

newObservationCallback(buffer, pObject) == Append(buffer, pObject)

\* Mutant: a scene graph that is already queued is not queued again.
newSceneGraphCallback_Dedup(buffer, pSceneGraph) ==
  IF \E i \in 1..Len(buffer) : buffer[i] = pSceneGraph
    THEN buffer
    ELSE Append(buffer, pSceneGraph)

newSceneGraphCallback(buffer, pSceneGraph) == Append(buffer, pSceneGraph)

\* ------------------------------------------------------ reading rosbag files

\* rosbag::View with a TopicQuery: the messages recorded on the topic.
TopicView(path, topic) ==
  SelectSeq(BagContent(path), LAMBDA m : m.topic = topic)

\* MessageInstance::instantiate<T>: null when the message is not of type T.
instantiate(msg, type) == IF msg.type = type THEN msg.val ELSE "NULL"

\* Mutant: the loop is left at the first null record ("break" for skip).
RECURSIVE forwardSceneGraphs_Break(_, _)
forwardSceneGraphs_Break(buffer, records) ==
  IF records = << >> THEN buffer
  ELSE LET currentSceneGraph == instantiate(Head(records), "PbdSceneGraph")
       IN  IF currentSceneGraph = "NULL" THEN buffer
           ELSE forwardSceneGraphs_Break(
                  newSceneGraphCallback(buffer, currentSceneGraph), Tail(records))

\* The loop over the view: every non-null scene graph goes through the
\* scene-graph callback.
RECURSIVE forwardSceneGraphs(_, _)
forwardSceneGraphs(buffer, records) ==
  IF records = << >> THEN buffer
  ELSE LET currentSceneGraph == instantiate(Head(records), "PbdSceneGraph")
       IN  forwardSceneGraphs(
             IF currentSceneGraph # "NULL"
               THEN newSceneGraphCallback(buffer, currentSceneGraph)
               ELSE buffer,
             Tail(records))

\* The messages of the records that instantiate to the type, in order:
\* these are the ones the loop hands to the callback.
instantiated(records, type) ==
  LET valid == SelectSeq(records, LAMBDA r : instantiate(r, type) # "NULL")
  IN  [ i \in 1..Len(valid) |-> instantiate(valid[i], type) ]

\* A ROS_WARN_STREAM about a file with no message on the topic.
Warning(path, topic) == [path |-> path, topic |-> topic]

\* Mutant: the exception of a file that cannot be opened is not caught.
extractPbdSceneGraphsFromBag_OpenThrows(path, listener, buffer) ==
  IF ~listener
    THEN [ error |-> Err("logic_error", path, "constructor"),
           buffer |-> buffer, opened |-> {}, warned |-> << >>,
           forwarded |-> << >> ]
  ELSE IF ~CanOpen(path)
    THEN [ error |-> Err("bag_io_error", path, "constructor"),
           buffer |-> buffer, opened |-> {}, warned |-> << >>,
           forwarded |-> << >> ]
  ELSE LET pbdSceneGraphView == TopicView(path, "scene_graph_topic")
       IN  [ error |-> NoError,
             buffer |-> forwardSceneGraphs(buffer, pbdSceneGraphView),
             opened |-> {path},
             warned |-> IF Len(pbdSceneGraphView) = 0
                          THEN << Warning(path, "scene_graph_topic") >>
                          ELSE << >>,
             forwarded |-> instantiated(pbdSceneGraphView, "PbdSceneGraph") ]

\* Mutant: the size of the view is not looked at, no warning is given.
extractPbdSceneGraphsFromBag_NoWarning(path, listener, buffer) ==
  IF ~listener
    THEN [ error |-> Err("logic_error", path, "constructor"),
           buffer |-> buffer, opened |-> {}, warned |-> << >>,
           forwarded |-> << >> ]
  ELSE IF ~CanOpen(path)
    THEN [ error |-> NoError, buffer |-> buffer, opened |-> {}, warned |-> << >>,
           forwarded |-> << >> ]
  ELSE [ error |-> NoError,
         buffer |-> forwardSceneGraphs(buffer, TopicView(path, "scene_graph_topic")),
         opened |-> {path},
         warned |-> << >>,
         forwarded |-> instantiated(TopicView(path, "scene_graph_topic"),
                                    "PbdSceneGraph") ]

\* Mutant: the subscriber is not looked at before the file is opened.
extractPbdSceneGraphsFromBag_NoSubscriberCheck(path, listener, buffer) ==
  IF ~CanOpen(path)
    THEN [ error |-> NoError, buffer |-> buffer, opened |-> {}, warned |-> << >>,
           forwarded |-> << >> ]
  ELSE [ error |-> NoError,
         buffer |-> forwardSceneGraphs(buffer, TopicView(path, "scene_graph_topic")),
         opened |-> {path},
         warned |-> IF Len(TopicView(path, "scene_graph_topic")) = 0
                      THEN << Warning(path, "scene_graph_topic") >>
                      ELSE << >>,
         forwarded |-> instantiated(TopicView(path, "scene_graph_topic"),
                                    "PbdSceneGraph") ]

\* What one call does: the exception it throws (if any), the scene-graph
\* buffer it leaves, the file it opened, the warning it gave and the scene
\* graphs it handed to newSceneGraphCallback.
extractPbdSceneGraphsFromBag(path, listener, buffer) ==
  IF ~listener
    THEN [ error |-> Err("logic_error", path, "constructor"),
           buffer |-> buffer, opened |-> {}, warned |-> << >>,
           forwarded |-> << >> ]
  ELSE IF ~CanOpen(path)
    THEN [ error |-> NoError, buffer |-> buffer, opened |-> {}, warned |-> << >>,
           forwarded |-> << >> ]
  ELSE LET pbdSceneGraphView == TopicView(path, "scene_graph_topic")
       IN  [ error |-> NoError,
             buffer |-> forwardSceneGraphs(buffer, pbdSceneGraphView),
             opened |-> {path},
             warned |-> IF Len(pbdSceneGraphView) = 0
                          THEN << Warning(path, "scene_graph_topic") >>
                          ELSE << >>,
             forwarded |-> instantiated(pbdSceneGraphView, "PbdSceneGraph") ]

\* The paths readLearnerInputBags goes through: the string itself, or the
\* elements of the array.
bagPaths(v) ==
  IF v.type = "string" THEN << v.str >>
  ELSE [ i \in 1..Len(v.arr) |-> v.arr[i].str ]

\* One iteration of readLearnerInputBags, or its end.  When the option is
\* not set the value has no type, and asking it for its size either yields
\* no element or throws, depending on the XmlRpc library.
readLearnerInputBags ==
  /\ pc = "read_bags"
  /\ \E sizeThrows \in IF config.bagList.type = "invalid" THEN BOOLEAN ELSE {FALSE} :
       IF sizeThrows
         THEN /\ pc' = "aborted"
              /\ error' = Err("xmlrpc_error", "bag_filenames_list", "constructor")
              /\ UNCHANGED << mSceneGraphBuffer, opened, warnings, bagIdx, calls,
                              enqSg >>
       ELSE IF bagIdx > Len(bagPaths(config.bagList))
         THEN /\ pc' = "ready"
              /\ UNCHANGED << error, mSceneGraphBuffer, opened, warnings, bagIdx, calls,
                              enqSg >>
       ELSE LET path == bagPaths(config.bagList)[bagIdx]
                r == extractPbdSceneGraphsFromBag(path, mSceneGraphListener,
                                                  mSceneGraphBuffer)
            IN  /\ error' = r.error
                /\ pc' = IF r.error = NoError THEN "read_bags" ELSE "aborted"
                /\ mSceneGraphBuffer' = r.buffer
                /\ enqSg' = enqSg \o r.forwarded
                /\ opened' = opened \cup r.opened
                /\ warnings' = warnings \o r.warned
                /\ bagIdx' = bagIdx + 1
                /\ calls' = Append(calls, Call("extractPbdSceneGraphsFromBag", path,
                                               r.opened # {}))
  /\ UNCHANGED << config, mObjectListener, mSceneGraphListener, mVisualizer,
                  mEvidenceBuffer, mModel, view, arrivals, arrivedInOp, tick,
                  startEv, startSg >>
  /\ UNCHANGED << enqEv, popEv, popSg >>
  /\ UNCHANGED << tableVars, inferenceVars >>

objectArrives ==
  /\ mObjectListener
  /\ pc \in {"ready", "update_evidence", "update_graphs", "stack_loop"}
  /\ arrivals < MaxArrivals
  /\ \E pObject \in Evidence :
       /\ mEvidenceBuffer' = newObservationCallback(mEvidenceBuffer, pObject)
       /\ enqEv' = Append(enqEv, pObject)
  /\ arrivals' = arrivals + 1
  /\ arrivedInOp' = (arrivedInOp \/ pc # "ready")
  /\ UNCHANGED << config, pc, error, mObjectListener, mSceneGraphListener,
                  mVisualizer, mSceneGraphBuffer, mModel, calls, bagIdx, view,
                  opened, warnings, tick, startEv, startSg >>
  /\ UNCHANGED << popEv, enqSg, popSg >>
  /\ UNCHANGED << tableVars, inferenceVars >>

sceneGraphArrives ==
  /\ mSceneGraphListener
  /\ pc \in {"ready", "update_evidence", "update_graphs", "stack_loop"}
  /\ arrivals < MaxArrivals
  /\ \E pSceneGraph \in SceneGraphs :
       /\ mSceneGraphBuffer' = newSceneGraphCallback(mSceneGraphBuffer, pSceneGraph)
       /\ enqSg' = Append(enqSg, pSceneGraph)
  /\ arrivals' = arrivals + 1
  /\ arrivedInOp' = (arrivedInOp \/ pc # "ready")
  /\ UNCHANGED << config, pc, error, mObjectListener, mSceneGraphListener,
                  mVisualizer, mEvidenceBuffer, mModel, calls, bagIdx, view,
                  opened, warnings, tick, startEv, startSg >>
  /\ UNCHANGED << enqEv, popEv, popSg >>
  /\ UNCHANGED << tableVars, inferenceVars >>

\* ------------------------------------------------------------------ update()

updateBegin ==
  /\ pc = "ready"
  /\ config.mode = "online"
  /\ pc' = "update_evidence"
  /\ calls' = << >>
  /\ arrivedInOp' = FALSE
  /\ startEv' = mEvidenceBuffer
  /\ startSg' = mSceneGraphBuffer
  /\ tick' = IF tick = "none" THEN "first" ELSE "later"
  /\ UNCHANGED << config, error, mObjectListener, mSceneGraphListener,
                  mVisualizer, mEvidenceBuffer, mSceneGraphBuffer, mModel,
                  bagIdx, view, opened, warnings, arrivals >>
  /\ UNCHANGED hist
  /\ UNCHANGED << tableVars, inferenceVars >>

\* Mutant: the evidence is forwarded to the model a second time.
forwardEvidence_Twice(m, log, evidence, transformOk) ==
  IF transformOk
    THEN [ model |-> integrateEvidence(integrateEvidence(m, evidence), evidence),
           calls |-> log \o << Call("transform", evidence, TRUE),
                               Call("integrateEvidence", evidence, TRUE),
                               Call("integrateEvidence", evidence, TRUE) >> ]
    ELSE [ model |-> m,
           calls |-> Append(log, Call("transform", evidence, FALSE)) ]

\* Mutant: the catch block lacks its "continue".
forwardEvidence_NoContinue(m, log, evidence, transformOk) ==
  [ model |-> integrateEvidence(m, evidence),
    calls |-> log \o << Call("transform", evidence, transformOk),
                        Call("integrateEvidence", evidence, TRUE) >> ]

\* The body of the evidence loop after the pop: transform, and forward the
\* evidence to the model unless the transformation threw.
forwardEvidence(m, log, evidence, transformOk) ==
  IF transformOk
    THEN [ model |-> integrateEvidence(m, evidence),
           calls |-> log \o << Call("transform", evidence, TRUE),
                               Call("integrateEvidence", evidence, TRUE) >> ]
    ELSE [ model |-> m,
           calls |-> Append(log, Call("transform", evidence, FALSE)) ]

\* One iteration of while(!mEvidenceBuffer.empty()).
updateEvidence ==
  /\ pc = "update_evidence"
  /\ mEvidenceBuffer # << >>
  /\ \E transformOk \in BOOLEAN :
       LET r == forwardEvidence(mModel, calls, Head(mEvidenceBuffer), transformOk)
       IN  /\ mModel' = r.model
           /\ calls' = r.calls
           /\ popEv' = Append(popEv, Taken(Head(mEvidenceBuffer), transformOk))
  /\ mEvidenceBuffer' = Tail(mEvidenceBuffer)
  /\ UNCHANGED << config, pc, error, mObjectListener, mSceneGraphListener,
                  mVisualizer, mSceneGraphBuffer, bagIdx, view, opened,
                  warnings, arrivals, arrivedInOp, tick, startEv, startSg >>
  /\ UNCHANGED << enqEv, enqSg, popSg >>
  /\ UNCHANGED << tableVars, inferenceVars >>

\* Mutant: the first queued scene graph, when it names a scene, is
\* integrated before the model is recomputed.
updateModelStep_LearnFirst ==
  /\ pc = "update_evidence"
  /\ mEvidenceBuffer = << >>
  /\ IF mSceneGraphBuffer # << >> /\ sceneGraphKnown(mModel, Head(mSceneGraphBuffer))
       THEN /\ mModel' = updateModel(integrateSceneGraph(mModel, Head(mSceneGraphBuffer)))
            /\ calls' = calls \o << Call("integrateSceneGraph",
                                         Head(mSceneGraphBuffer), TRUE),
                                    Call("updateModel", "", TRUE) >>
            /\ popSg' = Append(popSg, Taken(Head(mSceneGraphBuffer), TRUE))
            /\ mSceneGraphBuffer' = Tail(mSceneGraphBuffer)
       ELSE /\ mModel' = updateModel(mModel)
            /\ calls' = Append(calls, Call("updateModel", "", TRUE))
            /\ UNCHANGED << popSg, mSceneGraphBuffer >>
  /\ pc' = "update_graphs"
  /\ UNCHANGED << config, error, mObjectListener, mSceneGraphListener,
                  mVisualizer, mEvidenceBuffer, bagIdx,
                  view, opened, warnings, arrivals, arrivedInOp, tick,
                  startEv, startSg >>
  /\ UNCHANGED << enqEv, popEv, enqSg >>
  /\ UNCHANGED << tableVars, inferenceVars >>

\* Mutant: the evidence loop is left after its first pass ("if" for "while").
updateModelStep_SinglePass ==
  /\ pc = "update_evidence"
  /\ Len(calls) > 0 \/ mEvidenceBuffer = << >>
  /\ mModel' = updateModel(mModel)
  /\ calls' = Append(calls, Call("updateModel", "", TRUE))
  /\ pc' = "update_graphs"
  /\ UNCHANGED << config, error, mObjectListener, mSceneGraphListener,
                  mVisualizer, mEvidenceBuffer, mSceneGraphBuffer, bagIdx,
                  view, opened, warnings, arrivals, arrivedInOp, tick,
                  startEv, startSg >>
  /\ UNCHANGED hist
  /\ UNCHANGED << tableVars, inferenceVars >>

\* The evidence loop ends; mModel.updateModel().
updateModelStep ==
  /\ pc = "update_evidence"
  /\ mEvidenceBuffer = << >>
  /\ mModel' = updateModel(mModel)
  /\ calls' = Append(calls, Call("updateModel", "", TRUE))
  /\ pc' = "update_graphs"
  /\ UNCHANGED << config, error, mObjectListener, mSceneGraphListener,
                  mVisualizer, mEvidenceBuffer, mSceneGraphBuffer, bagIdx,
                  view, opened, warnings, arrivals, arrivedInOp, tick,
                  startEv, startSg >>
  /\ UNCHANGED hist
  /\ UNCHANGED << tableVars, inferenceVars >>

\* Mutant: the model is recomputed after every scene graph.
forwardSceneGraph_Recompute(m, log, sceneGraph) ==
  IF sceneGraphKnown(m, sceneGraph)
    THEN [ model |-> updateModel(integrateSceneGraph(m, sceneGraph)),
           calls |-> log \o << Call("integrateSceneGraph", sceneGraph, TRUE),
                               Call("updateModel", "", TRUE) >>,
           error |-> NoError ]
    ELSE [ model |-> m,
           calls |-> Append(log, Call("integrateSceneGraph", sceneGraph, FALSE)),
           error |-> Err("lookup_error", sceneGraph, "update") ]

\* Mutant: the lookup error is caught and the scene graph passed over.
forwardSceneGraph_Caught(m, log, sceneGraph) ==
  IF sceneGraphKnown(m, sceneGraph)
    THEN [ model |-> integrateSceneGraph(m, sceneGraph),
           calls |-> Append(log, Call("integrateSceneGraph", sceneGraph, TRUE)),
           error |-> NoError ]
    ELSE [ model |-> m,
           calls |-> Append(log, Call("integrateSceneGraph", sceneGraph, FALSE)),
           error |-> NoError ]

\* The body of the scene-graph loop after the pop.  update() catches
\* nothing here: a lookup error of the model leaves update().
forwardSceneGraph(m, log, sceneGraph) ==
  IF sceneGraphKnown(m, sceneGraph)
    THEN [ model |-> integrateSceneGraph(m, sceneGraph),
           calls |-> Append(log, Call("integrateSceneGraph", sceneGraph, TRUE)),
           error |-> NoError ]
    ELSE [ model |-> m,
           calls |-> Append(log, Call("integrateSceneGraph", sceneGraph, FALSE)),
           error |-> Err("lookup_error", sceneGraph, "update") ]

\* Mutant: the scene graph is popped after it was integrated, so that it
\* stays queued when integrateSceneGraph throws.
updateSceneGraph_PopAfter ==
  /\ pc = "update_graphs"
  /\ mSceneGraphBuffer # << >>
  /\ LET r == forwardSceneGraph(mModel, calls, Head(mSceneGraphBuffer))
     IN  /\ mModel' = r.model
         /\ calls' = r.calls
         /\ error' = r.error
         /\ pc' = IF r.error = NoError THEN "update_graphs" ELSE "aborted"
         /\ popSg' = IF r.error = NoError
                       THEN Append(popSg, Taken(Head(mSceneGraphBuffer), TRUE))
                       ELSE popSg
         /\ mSceneGraphBuffer' = IF r.error = NoError
                                   THEN Tail(mSceneGraphBuffer)
                                   ELSE mSceneGraphBuffer
  /\ UNCHANGED << config, mObjectListener, mSceneGraphListener, mVisualizer,
                  mEvidenceBuffer, bagIdx, view, opened, warnings, arrivals,
                  arrivedInOp, tick, startEv, startSg >>
  /\ UNCHANGED << enqEv, popEv, enqSg >>
  /\ UNCHANGED << tableVars, inferenceVars >>

\* One iteration of while(!mSceneGraphBuffer.empty()).
updateSceneGraph ==
  /\ pc = "update_graphs"
  /\ mSceneGraphBuffer # << >>
  /\ LET r == forwardSceneGraph(mModel, calls, Head(mSceneGraphBuffer))
     IN  /\ mModel' = r.model
         /\ calls' = r.calls
         /\ error' = r.error
         /\ pc' = IF r.error = NoError THEN "update_graphs" ELSE "aborted"
         /\ popSg' = Append(popSg, Taken(Head(mSceneGraphBuffer), r.error = NoError))
  /\ mSceneGraphBuffer' = Tail(mSceneGraphBuffer)
  /\ UNCHANGED << config, mObjectListener, mSceneGraphListener, mVisualizer,
                  mEvidenceBuffer, bagIdx, view, opened, warnings, arrivals,
                  arrivedInOp, tick, startEv, startSg >>
  /\ UNCHANGED << enqEv, popEv, enqSg >>
  /\ UNCHANGED << tableVars, inferenceVars >>

\* Mutant: the results are fetched and shown only when the update() took
\* something from a buffer.
updateEmit_SkipIdle ==
  /\ pc = "update_graphs"
  /\ mSceneGraphBuffer = << >>
  /\ calls' = IF Len(calls) > 1
                THEN calls \o << Call("getSceneListWithProbabilities", "", TRUE),
                                 Call("draw", "", TRUE) >>
                ELSE calls
  /\ pc' = "ready"
  /\ UNCHANGED << config, error, mObjectListener, mSceneGraphListener,
                  mVisualizer, mEvidenceBuffer, mSceneGraphBuffer, mModel,
                  bagIdx, view, opened, warnings, arrivals, arrivedInOp, tick,
                  startEv, startSg >>
  /\ UNCHANGED hist
  /\ UNCHANGED << tableVars, inferenceVars >>

\* The scene-graph loop ends; the results are fetched, printed and drawn.
updateEmit ==
  /\ pc = "update_graphs"
  /\ mSceneGraphBuffer = << >>
  /\ calls' = calls \o << Call("getSceneListWithProbabilities", "", TRUE),
                          Call("draw", "", TRUE) >>
  /\ pc' = "ready"
  /\ UNCHANGED << config, error, mObjectListener, mSceneGraphListener,
                  mVisualizer, mEvidenceBuffer, mSceneGraphBuffer, mModel,
                  bagIdx, view, opened, warnings, arrivals, arrivedInOp, tick,
                  startEv, startSg >>
  /\ UNCHANGED hist
  /\ UNCHANGED << tableVars, inferenceVars >>

\* ------------------------------------------------------ executeInStackMode()

\* Up to the loop: read bag_path, check the subscriber, open the file and
\* build the view of the messages on the object topic.
stackOpen(cfg, listener) ==
  IF cfg.bagPath.type # "string"
    THEN [ error |-> Err("runtime_error", "bag_path", "executeInStackMode"),
           pc |-> "aborted", view |-> << >>, opened |-> {}, warned |-> << >> ]
  ELSE IF ~listener
    THEN [ error |-> Err("logic_error", cfg.bagPath.str, "executeInStackMode"),
           pc |-> "aborted", view |-> << >>, opened |-> {}, warned |-> << >> ]
  ELSE IF ~CanOpen(cfg.bagPath.str)
    THEN [ error |-> NoError,
           pc |-> "stopped", view |-> << >>, opened |-> {}, warned |-> << >> ]
  ELSE LET pbdSceneGraphView == TopicView(cfg.bagPath.str, "object_topic")
       IN  [ error |-> NoError, pc |-> "stack_loop",
             view |-> pbdSceneGraphView,
             opened |-> {cfg.bagPath.str},
             warned |-> IF Len(pbdSceneGraphView) = 0
                          THEN << Warning(cfg.bagPath.str, "object_topic") >>
                          ELSE << >> ]

executeInStackMode ==
  /\ pc = "ready"
  /\ config.mode = "stack"
  /\ LET r == stackOpen(config, mObjectListener)
     IN  /\ error' = r.error
         /\ pc' = r.pc
         /\ view' = r.view
         /\ opened' = opened \cup r.opened
         /\ warnings' = warnings \o r.warned
  /\ calls' = << >>
  /\ arrivedInOp' = FALSE
  /\ startEv' = mEvidenceBuffer
  /\ startSg' = mSceneGraphBuffer
  /\ UNCHANGED << config, mObjectListener, mSceneGraphListener, mVisualizer,
                  mEvidenceBuffer, mSceneGraphBuffer, mModel, bagIdx,
                  arrivals, tick >>
  /\ UNCHANGED hist
  /\ UNCHANGED << tableVars, inferenceVars >>

\* Mutant: updateModel is called for every record that is not null,
\* transformed or not.
stackForward_UpdateAlways(m, log, record, transformOk) ==
  LET currentObject == instantiate(record, "PbdObject")
  IN  IF currentObject = "NULL"
        THEN [ model |-> m, calls |-> Append(log, Call("instantiate", "NULL", FALSE)) ]
      ELSE IF ~transformOk
        THEN [ model |-> updateModel(m),
               calls |-> log \o << Call("transform", currentObject, FALSE),
                                   Call("updateModel", "", TRUE) >> ]
      ELSE [ model |-> updateModel(integrateEvidence(m, currentObject)),
             calls |-> log \o << Call("transform", currentObject, TRUE),
                                 Call("integrateEvidence", currentObject, TRUE),
                                 Call("updateModel", "", TRUE) >> ]

\* The body of the loop over the view for one record: a null record is
\* passed over, a record that cannot be transformed is dropped, any other
\* is integrated and the model updated.
stackForward(m, log, record, transformOk) ==
  LET currentObject == instantiate(record, "PbdObject")
  IN  IF currentObject = "NULL"
        THEN [ model |-> m, calls |-> Append(log, Call("instantiate", "NULL", FALSE)) ]
      ELSE IF ~transformOk
        THEN [ model |-> m,
               calls |-> Append(log, Call("transform", currentObject, FALSE)) ]
      ELSE [ model |-> updateModel(integrateEvidence(m, currentObject)),
             calls |-> log \o << Call("transform", currentObject, TRUE),
                                 Call("integrateEvidence", currentObject, TRUE),
                                 Call("updateModel", "", TRUE) >> ]

stackRecord ==
  /\ pc = "stack_loop"
  /\ view # << >>
  /\ \E transformOk \in
         IF instantiate(Head(view), "PbdObject") = "NULL" THEN {TRUE} ELSE BOOLEAN :
       LET r == stackForward(mModel, calls, Head(view), transformOk)
       IN  /\ mModel' = r.model
           /\ calls' = r.calls
  /\ view' = Tail(view)
  /\ UNCHANGED << config, pc, error, mObjectListener, mSceneGraphListener,
                  mVisualizer, mEvidenceBuffer, mSceneGraphBuffer, bagIdx,
                  opened, warnings, arrivals, arrivedInOp, tick, startEv,
                  startSg >>
  /\ UNCHANGED hist
  /\ UNCHANGED << tableVars, inferenceVars >>

\* Mutant: before it returns executeInStackMode() takes the queued scene
\* graphs out of their buffer.
stackClose_TakesSceneGraphs ==
  /\ pc = "stack_loop"
  /\ view = << >>
  /\ calls' = Append(calls, Call("close", config.bagPath.str, TRUE))
  /\ pc' = "stopped"
  /\ mSceneGraphBuffer' = << >>
  /\ UNCHANGED << config, error, mObjectListener, mSceneGraphListener,
                  mVisualizer, mEvidenceBuffer, mModel,
                  bagIdx, view, opened, warnings, arrivals, arrivedInOp, tick,
                  startEv, startSg >>
  /\ UNCHANGED hist
  /\ UNCHANGED << tableVars, inferenceVars >>

\* The loop ends; the file is closed and executeInStackMode() returns.
stackClose ==
  /\ pc = "stack_loop"
  /\ view = << >>
  /\ calls' = Append(calls, Call("close", config.bagPath.str, TRUE))
  /\ pc' = "stopped"
  /\ UNCHANGED << config, error, mObjectListener, mSceneGraphListener,
                  mVisualizer, mEvidenceBuffer, mSceneGraphBuffer, mModel,
                  bagIdx, view, opened, warnings, arrivals, arrivedInOp, tick,
                  startEv, startSg >>
  /\ UNCHANGED hist
  /\ UNCHANGED << tableVars, inferenceVars >>

\* ------------------------------------------------------------ specification

Next ==
  \/ ctorGetParams
  \/ loadSceneModel
  \/ initializeVisualizationChain
  \/ subscribeObjectTopic
  \/ subscribeSceneGraphTopic
  \/ readLearnerInputBags
  \/ objectArrives
  \/ sceneGraphArrives
  \/ updateBegin
  \/ updateEvidence
  \/ updateModelStep
  \/ updateSceneGraph
  \/ updateEmit
  \/ executeInStackMode
  \/ stackRecord
  \/ stackClose

Spec == Init /\ [][Next]_vars

\* update() is straight-line code on the node's thread: once entered, each
\* of its steps is taken.
FairSpec ==
  Spec /\ WF_vars(updateEvidence) /\ WF_vars(updateModelStep)
       /\ WF_vars(updateSceneGraph) /\ WF_vars(updateEmit)

\* mModel.integrateEvidence() throws: the call is in no try block, so the
\* exception leaves update().  The evidence was popped and transformed before.
updateEvidenceThrows ==
  /\ pc = "update_evidence"
  /\ mEvidenceBuffer # << >>
  /\ calls' = calls \o << Call("transform", Head(mEvidenceBuffer), TRUE),
                          Call("integrateEvidence", Head(mEvidenceBuffer), FALSE) >>
  /\ popEv' = Append(popEv, Taken(Head(mEvidenceBuffer), FALSE))
  /\ mEvidenceBuffer' = Tail(mEvidenceBuffer)
  /\ error' = Err("exception", "integrateEvidence", "update")
  /\ pc' = "aborted"
  /\ UNCHANGED << config, mObjectListener, mSceneGraphListener, mVisualizer,
                  mSceneGraphBuffer, mModel, bagIdx, view, opened, warnings,
                  arrivals, arrivedInOp, tick, startEv, startSg >>
  /\ UNCHANGED << enqEv, enqSg, popSg >>
  /\ UNCHANGED << tableVars, inferenceVars >>

\* mModel.updateModel() throws, after the evidence loop: the exception
\* leaves update().
updateModelThrows ==
  /\ pc = "update_evidence"
  /\ mEvidenceBuffer = << >>
  /\ calls' = Append(calls, Call("updateModel", "", FALSE))
  /\ error' = Err("exception", "updateModel", "update")
  /\ pc' = "aborted"
  /\ UNCHANGED << config, mObjectListener, mSceneGraphListener, mVisualizer,
                  mEvidenceBuffer, mSceneGraphBuffer, mModel, bagIdx, view,
                  opened, warnings, arrivals, arrivedInOp, tick, startEv,
                  startSg >>
  /\ UNCHANGED hist
  /\ UNCHANGED << tableVars, inferenceVars >>

ThrowNext ==
  \/ Next
  \/ updateEvidenceThrows
  \/ updateModelThrows

\* The node with a model whose integrateEvidence and updateModel may throw.
ThrowSpec == Init /\ [][ThrowNext]_vars

\* NodeHandle::subscribe() hands back a subscriber that is not valid when
\* the subscription could not be made; the constructor stores it unchecked.
subscribeObjectTopicFails ==
  /\ pc = "subscribe_objects"
  /\ mObjectListener' = FALSE
  /\ calls' = Append(calls, Call("subscribe", "object_topic", FALSE))
  /\ pc' = "subscribe_graphs"
  /\ UNCHANGED << config, error, mSceneGraphListener, mVisualizer,
                  mEvidenceBuffer, mSceneGraphBuffer, mModel, bagIdx, view,
                  opened, warnings, arrivals, arrivedInOp, tick, startEv,
                  startSg >>
  /\ UNCHANGED hist
  /\ UNCHANGED << tableVars, inferenceVars >>

subscribeSceneGraphTopicFails ==
  /\ pc = "subscribe_graphs"
  /\ mSceneGraphListener' = FALSE
  /\ calls' = Append(calls, Call("subscribe", "scene_graph_topic", FALSE))
  /\ pc' = "read_bags"
  /\ UNCHANGED << config, error, mObjectListener, mVisualizer,
                  mEvidenceBuffer, mSceneGraphBuffer, mModel, bagIdx, view,
                  opened, warnings, arrivals, arrivedInOp, tick, startEv,
                  startSg >>
  /\ UNCHANGED hist
  /\ UNCHANGED << tableVars, inferenceVars >>

SubscribeNext ==
  \/ Next
  \/ subscribeObjectTopicFails
  \/ subscribeSceneGraphTopicFails

\* The node with subscriptions that may fail.
SubscribeSpec == Init /\ [][SubscribeNext]_vars

\* The constructor is straight-line code as well, and the node's main loop
\* calls update() again and again while the node runs: the node's thread
\* takes its next step whenever it has one.
nodeThread ==
  \/ ctorGetParams \/ loadSceneModel \/ initializeVisualizationChain
  \/ subscribeObjectTopic \/ subscribeSceneGraphTopic \/ readLearnerInputBags
  \/ updateBegin \/ updateEvidence \/ updateModelStep \/ updateSceneGraph
  \/ updateEmit

LiveSpec == Spec /\ WF_vars(nodeThread)

\* ------------------------------------------- operations on the table

\* add(pType) on the table under test; the index the type has afterwards
\* is kept as the result.
tableAdd ==
  /\ steps < MaxTableOps
  /\ \E pType \in LearnedTypes :
       /\ table' = add(table, pType)
       /\ registered' = registered \cup {pType}
       /\ result' = Result("add", 0, pType, Prob(getIndex(add(table, pType), pType), 1))
  /\ steps' = steps + 1
  /\ UNCHANGED << engineVars, inferenceVars >>

\* add(pRow, pType).
tableAddCount ==
  /\ steps < MaxTableOps
  /\ \E pRow \in Rows, pType \in LearnedTypes :
       /\ table' = addCount(table, pRow, pType)
       /\ registered' = registered \cup {pType}
       /\ result' = Result("addCount", pRow, pType, Prob(0, 1))
  /\ steps' = steps + 1
  /\ UNCHANGED << engineVars, inferenceVars >>

tableSetDefaultClassCounter ==
  /\ steps < MaxTableOps
  /\ \E pRow \in Rows, pCount \in 0..MaxCount :
       /\ table' = setDefaultClassCounter(table, pRow, pCount)
       /\ result' = Result("setDefaultClassCounter", pRow, "", Prob(pCount, 1))
  /\ steps' = steps + 1
  /\ UNCHANGED << registered, engineVars, inferenceVars >>

tableNormalize ==
  /\ steps < MaxTableOps
  /\ table' = normalize(table)
  /\ result' = Result("normalize", 0, "", Prob(0, 1))
  /\ steps' = steps + 1
  /\ UNCHANGED << registered, engineVars, inferenceVars >>

\* getProbability(pRow, pType), for any row, one beyond the table
\* included, and any type, mapped or not.
tableGetProbability ==
  /\ \E pRow \in Rows \cup {RowBeyond}, pType \in Types :
       result' = Result("getProbability", pRow, pType,
                        getProbability(table, pRow, pType))
  /\ UNCHANGED << table, registered, steps, engineVars, inferenceVars >>

TableInit ==
  /\ config = CHOOSE cfg \in Configs : TRUE
  /\ InitEngine
  /\ InitTable
  /\ InitInference

TableNext ==
  \/ tableAdd
  \/ tableAddCount
  \/ tableSetDefaultClassCounter
  \/ tableNormalize
  \/ tableGetProbability

\* A table on its own, filled and queried in any order.
TableSpec == TableInit /\ [][TableNext]_vars

\* ------------------------------------ PowerSetBackgroundInferenceAlgorithm

\* The evidence the power set is taken of: the items of pEvidenceList
\* whose type is in the vocabulary of the background table.
backgroundItems(t, pEvidenceList) ==
  SelectSeq(pEvidenceList, LAMBDA e : e \in DOMAIN t.mMappingTypeToIndice)

\* The likelihood of one subset (a set of positions of the items), as a
\* numerator over den^n: the product, item by item from position i on, of the
\* table's value for the type of an item in the subset and of the value of
\* the default class for an item left out.
RECURSIVE subsetLikelihood(_, _, _, _)
subsetLikelihood(t, items, subset, i) ==
  IF i > Len(items) THEN 1
  ELSE (IF i \in subset THEN getProbability(t, 0, items[i]).num
                        ELSE DefaultValueOf(t).num)
         * subsetLikelihood(t, items, subset, i + 1)

\* The likelihoods of the subsets, summed up one subset after the other.
RECURSIVE sumLikelihoods(_, _, _)
sumLikelihoods(t, items, subsets) ==
  IF subsets = {} THEN 0
  ELSE LET subset == CHOOSE x \in subsets : TRUE
       IN  subsetLikelihood(t, items, subset, 1)
             + sumLikelihoods(t, items, subsets \ {subset})

RECURSIVE Power(_, _)
Power(b, n) == IF n = 0 THEN 1 ELSE b * Power(b, n - 1)

\* Mutant: the first item of the list is taken to be in every subset.
doInference_FirstFixed(t, pEvidenceList) ==
  LET items == backgroundItems(t, pEvidenceList)
      n == Len(items)
  IN  Prob(sumLikelihoods(t, items, { x \in SUBSET (1..n) : n = 0 \/ 1 \in x }),
           Power(DefaultValueOf(t).den, n))

\* doInference(pEvidenceList): all 2^n subsets of the n background items
\* are evaluated and their likelihoods summed; the sum is mProbability.
doInference(t, pEvidenceList) ==
  LET items == backgroundItems(t, pEvidenceList)
      n == Len(items)
  IN  Prob(sumLikelihoods(t, items, SUBSET (1..n)),
           Power(DefaultValueOf(t).den, n))

\* The list with the items at positions i and j exchanged.
swap(q, i, j) ==
  [ k \in 1..Len(q) |-> IF k = i THEN q[j] ELSE IF k = j THEN q[i] ELSE q[k] ]

\* k counts of the type added to row 0.
RECURSIVE addCounts(_, _, _)
addCounts(t, pType, k) ==
  IF k = 0 THEN t ELSE addCounts(addCount(t, 0, pType), pType, k - 1)

\* The background tables the inference is run on: one row, learned with
\* up to MaxCount counts of the default class and of each type, normalized.
BackgroundTables ==
  { normalize(addCounts(addCounts(
        setDefaultClassCounter(add(add(initializeTable(1), "cup"), "plate"), 0, d),
        "cup", c), "plate", p)) :
      d \in 0..MaxCount, c \in 0..MaxCount, p \in 0..MaxCount }

inferenceDoInference ==
  /\ mProbability' = doInference(table, evidenceList)
  /\ result' = Result("doInference", 0, "", doInference(table, evidenceList))
  /\ UNCHANGED << table, registered, steps, evidenceList, engineVars >>

\* The same evidence is presented in another order.
inferencePermute ==
  /\ mProbability # NotInferred
  /\ \E i, j \in 1..Len(evidenceList) :
       /\ evidenceList[i] # evidenceList[j]
       /\ evidenceList' = swap(evidenceList, i, j)
  /\ result' = Result("permute", 0, "", mProbability)
  /\ UNCHANGED << table, registered, steps, mProbability, engineVars >>

InferenceInit ==
  /\ config = CHOOSE cfg \in Configs : TRUE
  /\ InitEngine
  /\ table \in BackgroundTables
  /\ registered = LearnedTypes
  /\ steps = 0
  /\ result = NoResult
  /\ evidenceList \in SeqsUpTo(Types, MaxEvidence)
  /\ mProbability = NotInferred

InferenceNext ==
  \/ inferenceDoInference
  \/ inferencePermute

\* The inference on its own, for any background table and evidence list.
InferenceSpec == InferenceInit /\ [][InferenceNext]_vars

\* ------------------------------------------------- reading the log of calls

\* The arguments of the calls of `op` in the log, in order.
ArgsOf(log, op) ==
  LET sel == SelectSeq(log, LAMBDA c : c.op = op)
  IN  [ i \in 1..Len(sel) |-> sel[i].arg ]

\* The arguments of the calls of `op` that succeeded.
OkArgsOf(log, op) ==
  LET sel == SelectSeq(log, LAMBDA c : c.op = op /\ c.ok)
  IN  [ i \in 1..Len(sel) |-> sel[i].arg ]

PositionsOf(log, op) == { i \in 1..Len(log) : log[i].op = op }

InUpdate == pc \in {"update_evidence", "update_graphs"}

\* update() has returned normally and `calls` is its log.
UpdateReturned == pc = "ready" /\ tick # "none"

\* `calls` is the log of an update() that is running, has returned or was
\* left by an exception.
UpdateLog ==
  \/ InUpdate
  \/ UpdateReturned
  \/ (pc = "aborted" /\ error.in = "update")

\* --------------------------------------------------------------------- C1

\* C1: update() terminates, and when it returns normally and nothing
\* arrived while it ran, the evidence buffer and the scene-graph buffer are
\* both empty, whatever they held when it was called.
C1_UpdateTerminatesAndDrains ==
  /\ [][ (pc = "update_graphs" /\ pc' = "ready" /\ ~arrivedInOp')
           => (mEvidenceBuffer' = << >> /\ mSceneGraphBuffer' = << >>) ]_vars
  /\ (InUpdate ~> ~InUpdate)

\* An update() that found two evidence items and two scene graphs queued has
\* returned with nothing arriving meanwhile.
C1_Witness ==
  /\ UpdateReturned
  /\ ~arrivedInOp
  /\ Len(startEv) >= 2
  /\ Len(startSg) >= 2
  /\ calls[Len(calls)].op = "draw"
  /\ mEvidenceBuffer = << >>
  /\ mSceneGraphBuffer = << >>

\* --------------------------------------------------------------------- C2

IsPrefix(a, b) == Len(a) <= Len(b) /\ SubSeq(b, 1, Len(a)) = a

\* The PbdObject messages a rosbag file holds on the object topic.
EvidenceRecords(path) ==
  LET sel == SelectSeq(BagContent(path),
                       LAMBDA m : m.topic = "object_topic" /\ m.type = "PbdObject")
  IN  [ i \in 1..Len(sel) |-> sel[i].val ]

\* C3: an evidence item whose transformation fails is dropped and nothing
\* else: it is not passed to integrateEvidence (integrateEvidence always
\* directly follows the successful transformation of the same item), in
\* update() and in executeInStackMode(); every item behind it is still taken
\* up in order, and in update() updateModel and the scene-graph phase still
\* run.
C3_TransformFailureDropsItemOnly ==
  /\ \A i \in 1..Len(calls) :
       /\ (calls[i].op = "transform" /\ ~calls[i].ok)
            => (i = Len(calls) \/ calls[i + 1].op # "integrateEvidence")
       /\ calls[i].op = "integrateEvidence"
            => (i > 1 /\ calls[i - 1] = Call("transform", calls[i].arg, TRUE))
  /\ (UpdateLog /\ pc # "update_evidence") =>
       /\ IsPrefix(startEv, ArgsOf(calls, "transform"))
       /\ (~arrivedInOp => ArgsOf(calls, "transform") = startEv)
       /\ OkArgsOf(calls, "transform") = ArgsOf(calls, "integrateEvidence")
       /\ PositionsOf(calls, "updateModel") # {}
  /\ (UpdateReturned /\ ~arrivedInOp) =>
       ArgsOf(calls, "integrateSceneGraph") = startSg
  /\ (pc = "stopped" /\ config.bagPath.str \in opened) =>
       /\ ArgsOf(calls, "transform") = EvidenceRecords(config.bagPath.str)
       /\ OkArgsOf(calls, "transform") = ArgsOf(calls, "integrateEvidence")

\* update() returned after the first of two queued items failed to
\* transform: the second was integrated and the scene graphs were too.
C3_Witness ==
  /\ UpdateReturned
  /\ ~arrivedInOp
  /\ Len(startEv) = 2
  /\ startSg # << >>
  /\ calls[1] = Call("transform", startEv[1], FALSE)
  /\ calls[2] = Call("transform", startEv[2], TRUE)
  /\ calls[3] = Call("integrateEvidence", startEv[2], TRUE)
  /\ ArgsOf(calls, "integrateSceneGraph") = startSg

\* --------------------------------------------------------------------- C4

\* C4: within one update() every integrateEvidence call comes before the
\* call of updateModel, updateModel is called exactly once (none yet while
\* the evidence loop runs), every integrateSceneGraph call comes after it,
\* and the scene-graph phase recomputes nothing: what updateModel covered is
\* all evidence and all scene graphs but those integrated in this update(),
\* which the next update()'s updateModel is the first to cover.
C4_PhasesOrdered ==
  UpdateLog =>
    /\ \A i \in PositionsOf(calls, "integrateEvidence") :
         \A j \in PositionsOf(calls, "updateModel") : i < j
    /\ \A j \in PositionsOf(calls, "updateModel") :
         \A k \in PositionsOf(calls, "integrateSceneGraph") : j < k
    /\ Cardinality(PositionsOf(calls, "updateModel"))
         = IF pc = "update_evidence" THEN 0 ELSE 1
    /\ pc = "update_evidence" => PositionsOf(calls, "integrateSceneGraph") = {}
    /\ pc # "update_evidence" =>
         /\ mModel.inferredEvidence = Len(mModel.evidence)
         /\ mModel.inferredLearned
              + Len(OkArgsOf(calls, "integrateSceneGraph")) = Len(mModel.learned)

\* A second update() whose only evidence item was dropped has called
\* updateModel all the same, and that call is the first to cover the scene
\* graphs the first update() integrated.
C4_Witness ==
  /\ tick = "later"
  /\ pc = "update_graphs"
  /\ Len(calls) = 2
  /\ calls[1].op = "transform" /\ ~calls[1].ok
  /\ calls[2].op = "updateModel"
  /\ Len(mModel.learned) >= 2
  /\ mModel.inferredLearned = Len(mModel.learned)

\* --------------------------------------------------------------------- C5

\* The PbdSceneGraph messages a rosbag file holds on the scene-graph topic
\* (none when the file cannot be opened).
SceneGraphRecords(path) ==
  IF CanOpen(path)
    THEN LET sel == SelectSeq(BagContent(path),
                      LAMBDA m : m.topic = "scene_graph_topic"
                                   /\ m.type = "PbdSceneGraph")
         IN  [ i \in 1..Len(sel) |-> sel[i].val ]
    ELSE << >>

\* The scene graphs of the first n files of a list, file after file.
RECURSIVE ExpectedQueue(_, _)
ExpectedQueue(paths, n) ==
  IF n = 0 THEN << >>
  ELSE ExpectedQueue(paths, n - 1) \o SceneGraphRecords(paths[n])

ArchiveHasUnknownExample(path) ==
  \E i \in 1..Len(SceneGraphRecords(path)) : SceneGraphRecords(path)[i] \notin Scenes

InConstructor ==
  pc \in {"constructor", "load_model", "init_vis", "subscribe_objects",
          "subscribe_graphs", "read_bags"}

\* C5 as stated: a scene-graph example naming a scene no scene has is fatal
\* at startup, so no update() ever starts once such an example was read and
\* a lookup error is never raised in an update().
C5_Original ==
  /\ (\E p \in opened : ArchiveHasUnknownExample(p)) => tick = "none"
  /\ error.kind = "lookup_error" => tick = "none"

\* C5 as amended: construction integrates no scene graph, it only queues
\* the example and completes; the lookup error is raised by
\* integrateSceneGraph inside the update() that takes the example from the
\* buffer, after that update()'s updateModel, it is not caught there and ends
\* the node.
C5_LookupErrorRaisedInUpdate ==
  /\ error.kind = "lookup_error" =>
       /\ pc = "aborted"
       /\ error.in = "update"
       /\ tick # "none"
       /\ error.what \notin Scenes
       /\ calls[Len(calls)] = Call("integrateSceneGraph", error.what, FALSE)
       /\ PositionsOf(calls, "updateModel") # {}
  /\ \A i \in 1..Len(calls) :
       (calls[i].op = "integrateSceneGraph" /\ ~calls[i].ok)
         => (i = Len(calls) /\ pc = "aborted" /\ error.kind = "lookup_error")
  /\ tick = "none" => PositionsOf(calls, "integrateSceneGraph") = {}
  /\ (pc = "ready" /\ tick = "none" /\ arrivals = 0) =>
       \A p \in opened :
         ArchiveHasUnknownExample(p)
           => \E i \in 1..Len(mSceneGraphBuffer) : mSceneGraphBuffer[i] \notin Scenes

\* The first update() was left by the lookup error of an example that was
\* read from a rosbag file during construction.
C5_Witness ==
  /\ error.kind = "lookup_error"
  /\ tick = "first"
  /\ arrivals = 0
  /\ \E p \in opened : ArchiveHasUnknownExample(p)

\* --------------------------------------------------------------------- C6

NothingStarted ==
  /\ mModel = EmptyModel
  /\ ~mObjectListener
  /\ ~mSceneGraphListener
  /\ ~mVisualizer
  /\ opened = {}
  /\ warnings = << >>
  /\ calls = << >>
  /\ bagIdx = 1
  /\ mEvidenceBuffer = << >>
  /\ mSceneGraphBuffer = << >>

\* C6: when a required option is missing the constructor throws, and
\* nothing that follows the reading of the options has happened: the model is
\* not loaded, there is no subscriber, no rosbag file was read and both
\* buffers are empty.
C6_MissingOptionFailsFirst ==
  (config.missing # {} /\ pc # "constructor") =>
    /\ pc = "aborted"
    /\ error.in = "constructor"
    /\ error.kind \in {"runtime_error", "invalid_argument"}
    /\ error.kind = "runtime_error" => error.what \in config.missing
    /\ NothingStarted

\* The option read last is the one that is missing, a valid list of two
\* rosbag files is given, and the constructor has thrown.
C6_Witness ==
  /\ pc = "aborted"
  /\ error = Err("runtime_error", "inference_algorithm", "constructor")
  /\ config.bagList.type = "array"
  /\ Len(config.bagList.arr) = 2
  /\ NothingStarted

\* --------------------------------------------------------------------- C7

C8_UnopenableArchiveSkipped ==
  /\ [][ (pc = "read_bags" /\ bagIdx' = bagIdx + 1
            /\ ~CanOpen(bagPaths(config.bagList)[bagIdx]))
           => /\ pc' = "read_bags"
              /\ error' = NoError
              /\ UNCHANGED << mEvidenceBuffer, mSceneGraphBuffer, mModel,
                              opened, warnings >> ]_vars
  /\ [][ (pc = "ready" /\ pc' # "ready" /\ config.mode = "stack"
            /\ config.bagPath.type = "string" /\ ~CanOpen(config.bagPath.str))
           => /\ pc' = "stopped"
              /\ error' = NoError
              /\ UNCHANGED << mEvidenceBuffer, mSceneGraphBuffer, mModel,
                              opened, warnings >> ]_vars
  /\ [] ( (~InConstructor /\ error.in # "constructor") =>
            \A i \in 1..Len(bagPaths(config.bagList)) :
              CanOpen(bagPaths(config.bagList)[i])
                => bagPaths(config.bagList)[i] \in opened )

\* The first file of the list could not be opened, the second was read and
\* its scene graphs are queued; executeInStackMode() then returned from a
\* file it could not open.
C8_Witness ==
  /\ pc = "stopped"
  /\ ~CanOpen(config.bagPath.str)
  /\ config.bagList.type = "array"
  /\ Len(config.bagList.arr) = 2
  /\ ~CanOpen(config.bagList.arr[1].str)
  /\ config.bagList.arr[2].str \in opened
  /\ mSceneGraphBuffer = SceneGraphRecords(config.bagList.arr[2].str)
  /\ mSceneGraphBuffer # << >>
  /\ mModel = loadModelFromFile(EmptyModel)

\* --------------------------------------------------------------------- C9

NoMessageOn(path, topic) ==
  \A i \in 1..Len(BagContent(path)) : BagContent(path)[i].topic # topic

IntegrationCalls(log) ==
  PositionsOf(log, "integrateEvidence") \cup PositionsOf(log, "updateModel")
    \cup PositionsOf(log, "integrateSceneGraph") \cup PositionsOf(log, "transform")

C10_Original ==
  (pc = "stopped" /\ error = NoError /\ arrivals = 0
     /\ config.bagPath.str \in opened) =>
    /\ ArgsOf(calls, "transform") = EvidenceRecords(config.bagPath.str)
    /\ mSceneGraphBuffer = << >>
    /\ mModel.learned
         = ExpectedQueue(bagPaths(config.bagList), Len(bagPaths(config.bagList)))

\* -------------------------------------------------------------------- C11

\* The items of a record of taken items, and those of them integrated.
Items(taken) == [ i \in 1..Len(taken) |-> taken[i].item ]

OkItems(taken) == Items(SelectSeq(taken, LAMBDA t : t.ok))

\* A step that takes something out of one of the two buffers.
Consumes ==
  \/ Len(mEvidenceBuffer') < Len(mEvidenceBuffer)
  \/ Len(mSceneGraphBuffer') < Len(mSceneGraphBuffer)

UpdateThrew == pc = "aborted" /\ error.in = "update"

\* The positions in the log of the calls that take in or recompute.
WorkPositions(log) ==
  PositionsOf(log, "transform") \cup PositionsOf(log, "integrateEvidence")
    \cup PositionsOf(log, "updateModel") \cup PositionsOf(log, "integrateSceneGraph")

CountIn(x, q) == Cardinality({ i \in 1..Len(q) : q[i] = x })

\* The count the table holds for a type in the row of a scene.
TableCount(t, g, type) == getProbability(t, SceneRow(g), type).num

\* The table after one integration of the example, starting from no count.
onceTable(g) ==
  updateFromSceneGraph(initializeTable(Cardinality(Scenes)), SceneRow(g),
                       SceneGraphObjects(g))

\* C13: the buffers keep every copy and learning adds up.  Each copy of a
\* scene-graph example handed to newSceneGraphCallback is either still queued
\* or has been integrated, so an example enqueued twice and taken twice is
\* integrated twice; and the counts of the model's table are, for an example
\* integrated k times, k times the counts one integration gives: twice
\* integrated, the counts are double.
C13_LearningAddsUp ==
  \A g \in Scenes :
    /\ CountIn(g, enqSg)
         = CountIn(g, mModel.learned) + CountIn(g, mSceneGraphBuffer)
    /\ \A type \in LearnedTypes :
         TableCount(modelTable(mModel), g, type)
           = CountIn(g, mModel.learned) * TableCount(onceTable(g), g, type)

\* The example s1 (two cups and a plate) was enqueued twice, by a file and
\* by a message or by two files, and an update() has integrated both copies:
\* the row of s1 counts four cups and two plates.
C13_Witness ==
  /\ UpdateReturned
  /\ CountIn("s1", enqSg) = 2
  /\ CountIn("s1", mModel.learned) = 2
  /\ TableCount(onceTable("s1"), "s1", "cup") = 2
  /\ TableCount(modelTable(mModel), "s1", "cup") = 4
  /\ TableCount(modelTable(mModel), "s1", "plate") = 2

\* -------------------------------------------------------------------- C14

\* The value of the column of the default class in a row.
DefaultValue(t, pRow) == Prob(t.mTable[pRow + 1].num[1], t.mTable[pRow + 1].den)

\* C14: whatever has been registered, a type that was never given to add()
\* has index 0, so a query for it reads the column of the default class; and
\* a query leaves the table, its columns included, as it was.
C14_UnknownTypeIsDefaultClass ==
  /\ [](\A pType \in Types \ registered : getIndex(table, pType) = 0)
  /\ []((result.op = "getProbability" /\ result.type \notin registered
           /\ result.row \in Rows) =>
          result.value = DefaultValue(table, result.row))
  /\ [][result'.op = "getProbability" =>
          /\ table' = table
          /\ getNumberOfColumns(table') = getNumberOfColumns(table)]_vars

\* Both learned types are registered and the default class of row 0 has a
\* count; the probability of "fork", which was never registered, was asked
\* for and is that count.
C14_Witness ==
  /\ registered = LearnedTypes
  /\ getNumberOfColumns(table) = 3
  /\ result = Result("getProbability", 0, "fork", DefaultValue(table, 0))
  /\ DefaultValue(table, 0).num > 0

\* -------------------------------------------------------------------- C15

\* C15: the types given to add() have distinct indices from 1 up to the
\* number of columns less one, never the 0 of the default class, and each row
\* has one value per column; no operation changes the index of a registered
\* type; and add() of a type that is registered already leaves the table as it
\* was, the type having the index it had.
C15_RegistrationIdempotentAndStable ==
  /\ [](/\ getNumberOfColumns(table) = 1 + Cardinality(registered)
        /\ \A pType \in registered :
             /\ getIndex(table, pType) >= 1
             /\ getIndex(table, pType) < getNumberOfColumns(table)
        /\ \A a, b \in registered :
             getIndex(table, a) = getIndex(table, b) => a = b
        /\ \A r \in DOMAIN table.mTable :
             Len(table.mTable[r].num) = getNumberOfColumns(table))
  /\ [][\A pType \in registered :
          getIndex(table', pType) = getIndex(table, pType)]_vars
  /\ [][(result'.op = "add" /\ result'.type \in registered) =>
          /\ table' = table
          /\ result'.value.num = getIndex(table, result'.type)]_vars

\* "plate" was registered first and "cup" after it, and add("plate") has
\* just been called again: "plate" still has index 1 and "cup" index 2.
C15_Witness ==
  /\ registered = LearnedTypes
  /\ steps = 3
  /\ result = Result("add", 0, "plate", Prob(1, 1))
  /\ getIndex(table, "cup") = 2
  /\ getNumberOfColumns(table) = 3

\* -------------------------------------------------------------------- C16

\* The values of a row sum to one.
SumsToOne(row) == SumSeq(row.num) = row.den

\* C16: normalize() turns every row that has a nonzero value into a row
\* whose values sum to one, each value being the value it had divided by the
\* sum the row had, and leaves a row of zeros as it is; no value is ever a
\* fraction over zero.
C16_NormalizeRows ==
  /\ [][result'.op = "normalize" =>
          \A r \in DOMAIN table.mTable :
            LET row == table.mTable[r]
                normalized == table'.mTable[r]
            IN  IF SumSeq(row.num) # 0
                  THEN /\ SumsToOne(normalized)
                       /\ \A i \in DOMAIN row.num :
                            ProbEq(Prob(normalized.num[i], normalized.den),
                                   Prob(row.num[i], SumSeq(row.num)))
                  ELSE normalized = row]_vars
  /\ [](\A r \in DOMAIN table.mTable : table.mTable[r].den >= 1)

\* Two cups and a plate were counted in row 0 and nothing in row 1, and the
\* table has just been normalized: row 0 holds 2/3 for the cup and 1/3 for the
\* plate, row 1 holds zeros.
C16_Witness ==
  /\ result.op = "normalize"
  /\ registered = LearnedTypes
  /\ ProbEq(getProbability(table, 0, "cup"), Prob(2, 3))
  /\ ProbEq(getProbability(table, 0, "plate"), Prob(1, 3))
  /\ SumsToOne(table.mTable[1])
  /\ SumSeq(table.mTable[2].num) = 0

\* -------------------------------------------------------------------- C17

\* C17: the probability the inference has computed is the one it computes
\* for the evidence list in the order it has now, whatever exchanges of items
\* the list has gone through since.
C17_InferenceOrderIndependent ==
  mProbability # NotInferred => mProbability = doInference(table, evidenceList)

\* The inference ran on a list of a cup, a plate and a fork, over a table
\* in which cup and plate differ, and two items of the list have since been
\* exchanged.
C17_Witness ==
  /\ result.op = "permute"
  /\ Len(evidenceList) = 3
  /\ \A pType \in Types : \E i \in 1..3 : evidenceList[i] = pType
  /\ getProbability(table, 0, "cup").num > getProbability(table, 0, "plate").num
  /\ getProbability(table, 0, "plate").num > 0
  /\ DefaultValueOf(table).num > 0
  /\ mProbability.num > 0

\* -------------------------------------------------------------------- C18

\* The last n items of the first k of a sequence.
Segment(q, k, n) == SubSeq(q, k - n + 1, k)

\* update() is running or has ended, by a return or by an exception.
UpdateSeen == InUpdate \/ UpdateReturned \/ UpdateThrew

\* C18: both buffers are first in, first out, whenever the callbacks run.
\* The items update() has taken so far are the first ones handed to the
\* callback, in the order they were handed over; what is queued is the rest,
\* in that order; and the transform and integrateSceneGraph calls of one
\* update() go through the segment taken in that update() in that order.
C18_BuffersFifo ==
  /\ IsPrefix(Items(popEv), enqEv)
  /\ IsPrefix(Items(popSg), enqSg)
  /\ mEvidenceBuffer = SubSeq(enqEv, Len(popEv) + 1, Len(enqEv))
  /\ mSceneGraphBuffer = SubSeq(enqSg, Len(popSg) + 1, Len(enqSg))
  /\ UpdateSeen =>
       /\ ArgsOf(calls, "transform")
            = Segment(enqEv, Len(popEv), Len(ArgsOf(calls, "transform")))
       /\ ArgsOf(calls, "integrateSceneGraph")
            = Segment(enqSg, Len(popSg), Len(ArgsOf(calls, "integrateSceneGraph")))

\* e2 was queued when update() began and e1 arrived while it ran; the
\* update() took e2, then e1, and after them the two scene graphs of a file,
\* in the order of the file.
C18_Witness ==
  /\ UpdateReturned
  /\ arrivedInOp
  /\ startEv = << "e2" >>
  /\ enqEv = << "e2", "e1" >>
  /\ ArgsOf(calls, "transform") = << "e2", "e1" >>
  /\ enqSg = << "s1", "s2" >>
  /\ ArgsOf(calls, "integrateSceneGraph") = << "s1", "s2" >>

\* -------------------------------------------------------------------- C19

\* The calls of update() on the model.
ModelCalls == {"integrateEvidence", "updateModel", "integrateSceneGraph"}

\* C19: an exception of integrateEvidence, updateModel or
\* integrateSceneGraph leaves update() at once: the call that threw is the last
\* of the log and the only one that threw, and the log has no
\* getSceneListWithProbabilities and no draw.  The item the call was made for
\* is the last one taken and is not queued any more; what was handed to the
\* callbacks is what was taken followed by what is queued, so the items behind
\* it are still queued in their order.  Every step of update() that transforms
\* or integrates an item is the step that pops it from the front of its buffer.
C19_FailureLeavesUpdate ==
  /\ [](UpdateThrew =>
          /\ calls # << >>
          /\ calls[Len(calls)].op \in ModelCalls
          /\ ~calls[Len(calls)].ok
          /\ \A i \in 1..(Len(calls) - 1) :
               calls[i].op \in ModelCalls => calls[i].ok
          /\ PositionsOf(calls, "getSceneListWithProbabilities") = {}
          /\ PositionsOf(calls, "draw") = {}
          /\ calls[Len(calls)].op = "integrateEvidence" =>
               /\ popEv # << >>
               /\ popEv[Len(popEv)] = Taken(calls[Len(calls)].arg, FALSE)
               /\ PositionsOf(calls, "updateModel") = {}
          /\ calls[Len(calls)].op = "integrateSceneGraph" =>
               /\ popSg # << >>
               /\ popSg[Len(popSg)] = Taken(calls[Len(calls)].arg, FALSE)
          /\ enqEv = Items(popEv) \o mEvidenceBuffer
          /\ enqSg = Items(popSg) \o mSceneGraphBuffer)
  /\ [][(InUpdate /\ Len(calls') > Len(calls)) =>
          LET made == calls'[Len(calls')]
          IN  /\ made.op \in {"transform", "integrateEvidence"} =>
                   /\ mEvidenceBuffer # << >>
                   /\ made.arg = Head(mEvidenceBuffer)
                   /\ mEvidenceBuffer' = Tail(mEvidenceBuffer)
              /\ made.op = "integrateSceneGraph" =>
                   /\ mSceneGraphBuffer # << >>
                   /\ made.arg = Head(mSceneGraphBuffer)
                   /\ mSceneGraphBuffer' = Tail(mSceneGraphBuffer)]_vars

\* integrateEvidence threw for e1, the first of two queued evidence items:
\* e2 and the scene graphs of a file are still queued, and nothing was emitted.
C19_Witness ==
  /\ UpdateThrew
  /\ error.what = "integrateEvidence"
  /\ enqEv = << "e1", "e2" >>
  /\ popEv = << Taken("e1", FALSE) >>
  /\ mEvidenceBuffer = << "e2" >>
  /\ mSceneGraphBuffer = << "s1", "s2" >>
  /\ calls = << Call("transform", "e1", TRUE),
                Call("integrateEvidence", "e1", FALSE) >>

\* -------------------------------------------------------------------- C20

\* The scene graphs the constructor read from the files of
\* bag_filenames_list, in the order it pushed them.
ArchiveSceneGraphs ==
  ExpectedQueue(bagPaths(config.bagList), Len(bagPaths(config.bagList)))

\* The first update() is past its evidence loop.
FirstUpdatePastEvidence ==
  tick = "first" /\ (pc = "update_graphs" \/ UpdateReturned \/ UpdateThrew)

\* C20: until the first update() has recomputed the model, no scene graph
\* has been integrated: the constructor makes no integrateSceneGraph call, and
\* neither does the evidence loop of the first update().  Once that update()
\* is past its evidence loop its log has one updateModel call, with the
\* integrateEvidence calls before it and the integrateSceneGraph calls after
\* it, and that recompute covered no learning example; the scene graphs of the
\* files were queued when the update() began and, when it returns, have been
\* integrated in their order.
C20_ArchiveGraphsLearnedAfterFirstRecompute ==
  /\ (tick = "none" \/ (tick = "first" /\ pc = "update_evidence")) =>
       /\ mModel.learned = << >>
       /\ popSg = << >>
       /\ PositionsOf(calls, "integrateSceneGraph") = {}
  /\ (pc = "ready" /\ tick = "none") =>
       IsPrefix(ArchiveSceneGraphs, mSceneGraphBuffer)
  /\ FirstUpdatePastEvidence =>
       /\ Cardinality(PositionsOf(calls, "updateModel")) = 1
       /\ \A u \in PositionsOf(calls, "updateModel") :
            /\ \A i \in PositionsOf(calls, "integrateEvidence") : i < u
            /\ \A i \in PositionsOf(calls, "integrateSceneGraph") : u < i
       /\ mModel.inferredLearned = 0
       /\ IsPrefix(ArchiveSceneGraphs, startSg)
  /\ (UpdateReturned /\ tick = "first") =>
       IsPrefix(ArchiveSceneGraphs, mModel.learned)

\* The first update() after a constructor that read s1 and s2 from a file:
\* evidence e1 is integrated, the model recomputed with nothing learned, and
\* only then s1 and s2 are integrated.
C20_Witness ==
  /\ UpdateReturned
  /\ tick = "first"
  /\ ArchiveSceneGraphs = << "s1", "s2" >>
  /\ mModel.inferredLearned = 0
  /\ mModel.inferredEvidence = 1
  /\ mModel.learned = << "s1", "s2" >>
  /\ calls = << Call("transform", "e1", TRUE),
                Call("integrateEvidence", "e1", TRUE),
                Call("updateModel", "", TRUE),
                Call("integrateSceneGraph", "s1", TRUE),
                Call("integrateSceneGraph", "s2", TRUE),
                Call("getSceneListWithProbabilities", "", TRUE),
                Call("draw", "", TRUE) >>

\* -------------------------------------------------------------------- C21

\* executeInStackMode() is running its loop or has returned after it.
StackLoopSeen ==
  config.mode = "stack" /\ pc \in {"stack_loop", "stopped"}

\* C21: in the log of executeInStackMode() every updateModel call directly
\* follows an integrateEvidence call and every integrateEvidence call is
\* directly followed by an updateModel call and directly preceded by the
\* transform of its record, which did not throw; so there are as many
\* updateModel calls as records transformed and integrated.  A null record or
\* a transform that threw is followed by the next record or the end of the
\* loop.  The recompute always covers all the evidence of the model.
C21_StackUpdatesModelPerRecord ==
  StackLoopSeen =>
    /\ \A i \in PositionsOf(calls, "updateModel") :
         i > 1 /\ calls[i - 1].op = "integrateEvidence"
    /\ \A i \in PositionsOf(calls, "integrateEvidence") :
         /\ i > 1 /\ calls[i - 1] = Call("transform", calls[i].arg, TRUE)
         /\ i < Len(calls) /\ calls[i + 1].op = "updateModel"
    /\ \A i \in 1..Len(calls) :
         ~calls[i].ok =>
           /\ calls[i].op \in {"instantiate", "transform"}
           /\ i < Len(calls) =>
                calls[i + 1].op \in {"instantiate", "transform", "close"}
    /\ Cardinality(PositionsOf(calls, "updateModel"))
         = Len(OkArgsOf(calls, "transform"))
    /\ ArgsOf(calls, "integrateEvidence") = OkArgsOf(calls, "transform")
    /\ mModel.evidence = ArgsOf(calls, "integrateEvidence")
    /\ mModel.inferredEvidence = Len(mModel.evidence)

\* The file objects.bag was gone through: the transform for e1 threw, the
\* record of another type was null, e2 was integrated and the model updated,
\* once.
C21_Witness ==
  /\ pc = "stopped"
  /\ calls = << Call("transform", "e1", FALSE),
                Call("instantiate", "NULL", FALSE),
                Call("transform", "e2", TRUE),
                Call("integrateEvidence", "e2", TRUE),
                Call("updateModel", "", TRUE),
                Call("close", "objects.bag", TRUE) >>
  /\ mModel.evidence = << "e2" >>
  /\ mModel.inferredEvidence = 1

\* -------------------------------------------------------------------- C22

\* executeInStackMode() was called: it is in its loop, has returned, or
\* has thrown.
StackModeSeen ==
  /\ config.mode = "stack"
  /\ \/ pc \in {"stack_loop", "stopped"}
     \/ pc = "aborted" /\ error.in = "executeInStackMode"

BadBagFilenamesList ==
  /\ config.bagList.type \notin {"invalid", "string"}
  /\ \/ config.bagList.type # "array"
     \/ \E i \in 1..Len(config.bagList.arr) :
          config.bagList.arr[i].type # "string"

\* The options the constructor reads before bag_filenames_list.
ReadBeforeBagFilenamesList ==
  { ParamOrder[i] : i \in { j \in 1..Len(ParamOrder) :
      \A k \in 1..j : ParamOrder[k] # "bag_filenames_list" } }

\* C23 as stated: a rejected bag_filenames_list makes the constructor throw
\* invalid_argument with nothing started, and an accepted one never does.
C23_Original ==
  pc # "constructor" =>
    /\ BadBagFilenamesList =>
         /\ pc = "aborted"
         /\ error = Err("invalid_argument", "bag_filenames_list", "constructor")
         /\ NothingStarted
    /\ ~BadBagFilenamesList => error.kind # "invalid_argument"

\* C23: a rejected bag_filenames_list makes the constructor throw before the
\* model is loaded, a subscription is made or a rosbag file is read.  The
\* error is invalid_argument when the four options read before the list are
\* set, whatever is missing after it; when one of those four is missing it is
\* the runtime_error for that option.  A string, an array of strings (an
\* empty one too) or an unset option never gives invalid_argument, and with
\* no option missing nothing throws before the model is loaded.
C23_BagListValidatedBeforeLoad ==
  pc # "constructor" =>
    /\ BadBagFilenamesList =>
         /\ pc = "aborted"
         /\ error.in = "constructor"
         /\ NothingStarted
         /\ config.missing \cap ReadBeforeBagFilenamesList = {} =>
              error = Err("invalid_argument", "bag_filenames_list", "constructor")
         /\ config.missing \cap ReadBeforeBagFilenamesList # {} =>
              /\ error.kind = "runtime_error"
              /\ error.what \in config.missing \cap ReadBeforeBagFilenamesList
    /\ ~BadBagFilenamesList =>
         /\ error.kind # "invalid_argument"
         /\ error.what = "bag_filenames_list" => error.kind = "xmlrpc_error"
         /\ (config.missing = {} /\ pc = "aborted") => mModel.loaded

\* The second element of the list is no string and an option read after the
\* list is missing: the constructor has thrown invalid_argument.
C23_Witness ==
  /\ pc = "aborted"
  /\ error = Err("invalid_argument", "bag_filenames_list", "constructor")
  /\ config.bagList.type = "array"
  /\ Len(config.bagList.arr) = 2
  /\ config.bagList.arr[1].type = "string"
  /\ config.bagList.arr[2].type = "int"
  /\ config.missing = {"base_frame_id"}
  /\ NothingStarted

\* -------------------------------------------------------------------- C24

\* What the constructor has called when it gets to readLearnerInputBags.
ConstructorPrefix ==
  /\ Len(calls) >= 4
  /\ calls[1] = Call("loadModelFromFile", "", TRUE)
  /\ calls[2].op = "getSceneListWithProbabilities"
  /\ calls[3].op = "subscribe" /\ calls[3].arg = "object_topic"
  /\ calls[4].op = "subscribe" /\ calls[4].arg = "scene_graph_topic"
  /\ calls[3].ok = mObjectListener
  /\ calls[4].ok = mSceneGraphListener

\* C24: a call of extractPbdSceneGraphsFromBag with a scene-graph subscriber
\* that is not valid throws logic_error, opens no file, gives no warning and
\* queues nothing.  The constructor gets to readLearnerInputBags only with
\* the model loaded and both subscribe calls made, in this order before any
\* file is parsed, so with subscriptions that succeed every file is parsed
\* with a valid subscriber.  executeInStackMode() does not get to its loop
\* without a valid object subscriber.
C24_ParsingNeedsSubscriber ==
  /\ [][(pc = "read_bags" /\ calls' # calls /\ ~mSceneGraphListener) =>
          /\ pc' = "aborted"
          /\ error' = Err("logic_error", bagPaths(config.bagList)[bagIdx],
                          "constructor")
          /\ calls' = Append(calls, Call("extractPbdSceneGraphsFromBag",
                                         bagPaths(config.bagList)[bagIdx], FALSE))
          /\ UNCHANGED << opened, warnings, mSceneGraphBuffer, enqSg >>]_vars
  /\ [](pc = "read_bags" =>
          /\ mModel.loaded
          /\ mVisualizer
          /\ ConstructorPrefix
          /\ \A i \in PositionsOf(calls, "extractPbdSceneGraphsFromBag") : i > 4)
  /\ [](pc \in {"constructor", "load_model", "init_vis", "subscribe_objects",
                 "subscribe_graphs"} =>
          /\ PositionsOf(calls, "extractPbdSceneGraphsFromBag") = {}
          /\ opened = {} /\ bagIdx = 1)
  /\ [](~mSceneGraphListener => (opened \cap LearnerBags) \subseteq StackBags)
  /\ [](~mSceneGraphListener => enqSg = << >> /\ mSceneGraphBuffer = << >>)
  /\ [](~mObjectListener => pc # "stack_loop")

\* The subscription to the scene-graph topic failed, and the call for the
\* first file of the list has thrown: nothing was opened or queued.
C24_Witness ==
  /\ pc = "aborted"
  /\ error = Err("logic_error", "scene.bag", "constructor")
  /\ mObjectListener /\ ~mSceneGraphListener
  /\ mModel.loaded
  /\ calls[Len(calls)] = Call("extractPbdSceneGraphsFromBag", "scene.bag", FALSE)
  /\ opened = {} /\ warnings = << >>
  /\ mSceneGraphBuffer = << >>

====
